---- MODULE Spec2Model ----
(***************************************************************************)
(* The session / step / auto-run controller of the puzzle front end        *)
(* (src/unnamed/part_000, lines 1-433: the variant with puzzle generation).*)
(*                                                                         *)
(* JavaScript runs one handler at a time: a handler runs without           *)
(* interruption until it returns or reaches an `await` on a fetch or on    *)
(* the 500 ms timer; a continuation that only waits for an already         *)
(* resolved promise runs in a microtask, before any other event.  So each  *)
(* action below is one click handler up to its first network/timer await,  *)
(* or one continuation from the arrival of a response (or the expiry of    *)
(* the timer) up to the next such await.                                   *)
(*                                                                         *)
(* The grid is scaled down from 9x9 cells with digits 0..9 to NCells cells *)
(* with digits 0..MaxVal; 0 is an empty cell.  What the backend answers    *)
(* (a grid, a step index, a finished flag, a session id, a puzzle, or a    *)
(* failure) is an input of the action that receives it.  Of the page's     *)
(* cell elements the model keeps the text shown; the generate dialog and   *)
(* the model / test-data listings hold no controller state and are left    *)
(* out.                                                                    *)
(***************************************************************************)
EXTENDS Integers, Sequences, FiniteSets, Bags, TLC

\* ------------------------------------------------------------------ bounds
NCells == 2
MaxVal == 1
MaxSessions == 2
MaxPending == 2
MaxStepIndex == 1
MaxLen == 2

\* ------------------------------------------------------------- value sets
Null == 0
Cells == 1..NCells
Vals == 0..MaxVal
Grids == [Cells -> Vals]
Sessions == 1..MaxSessions
StepIndexes == 0..MaxStepIndex
Chars == {" ", "m"}
Checkpoints == UNION {[1..n -> Chars] : n \in 0..MaxLen}

VARIABLES
    currentSessionId,   \* Null or the session id tracked locally
    autoSolving,        \* the run-active flag
    currentStep,        \* the step counter
    initialPuzzle,      \* the fixed puzzle
    currentPuzzle,      \* the current grid
    cellText,           \* textContent of the grid's cell elements (0: '')
    disabled,           \* the `disabled` attribute of the four command buttons
    statusText,         \* statusText.textContent
    stepFetches,        \* bag: the POST /api/step/<sid> requests in flight, each with
                        \*      the solveStep call that awaits it
    timers,             \* bag: the autoSolve loops that await their 500 ms timer
    initFetches,        \* bag: the POST /api/initialize requests in flight
    genFetches,         \* number of POST /api/generate_puzzle requests in flight
    deletes,            \* bag: the session ids a DELETE request was issued for
    deleteFetches,      \* bag: the DELETE requests in flight, by session id
    nextSid,            \* the next session id the backend hands out
    solved,             \* history: a finished step was applied since the last
                        \*          successful initialize
    applied,            \* history: <<grid>> of the step result updateGrid applied
                        \*          last, <<>> if none since the grid was rebuilt
    lastOp              \* history: the handler or continuation that ran last

vars == <<currentSessionId, autoSolving, currentStep, initialPuzzle, currentPuzzle,
          cellText, disabled, statusText, stepFetches, timers, initFetches, genFetches,
          deletes, deleteFetches, nextSid, solved, applied, lastOp>>

\* The hard-coded start puzzle, scaled down: cell 1 is a clue, the rest is empty.
initialPuzzleLiteral == [c \in Cells |-> IF c = 1 THEN 1 ELSE 0]

\* The buttons' `disabled` attributes as the page declares them.
HtmlDisabled ==
    [stepBtn |-> TRUE, autoSolveBtn |-> TRUE, stopBtn |-> TRUE, initializeBtn |-> FALSE]

\* An autoSolve loop is the continuation of one autoSolve() call: it awaits
\* either the solveStep call it made (a step fetch whose caller is "autoSolve")
\* or its timer.  `halted` is history: where the loop was when stopBtn was
\* first clicked during its life ("no": never).
Loop(halted) == [halted |-> halted]
StepFetch(sid, caller, halted) == [sid |-> sid, caller |-> caller, halted |-> halted]

One(e) == SetToBag({e})
AutoFetches == {f \in BagToSet(stepFetches) : f.caller = "autoSolve"}
AutoFetchCount ==
    BagCardinality([f \in AutoFetches |-> stepFetches[f]])
LiveLoops == AutoFetchCount + BagCardinality(timers)

\* The asynchronous operations outstanding: fetches awaited and timers running
\* (DELETE requests are not awaited).  The model lets a handler start one more
\* only while fewer than MaxPending are outstanding.
Pending ==
    BagCardinality(stepFetches) + BagCardinality(timers) + BagCardinality(initFetches)
        + genFetches

\* `marked` is the set of cells the handler gave the class 'changed'.
Op(name) == [op |-> name, grid |-> currentPuzzle, halted |-> "no", marked |-> {}]

\* createSudokuGrid(puzzle): the text of the cell elements built from `puzzle`.
createSudokuGrid(puzzle) == [c \in Cells |-> puzzle[c]]

Init ==
    /\ currentSessionId = Null
    /\ autoSolving = FALSE
    /\ currentStep = 0
    /\ initialPuzzle = initialPuzzleLiteral
    /\ currentPuzzle = initialPuzzleLiteral
    /\ cellText = createSudokuGrid(initialPuzzleLiteral)
    /\ disabled = HtmlDisabled
    /\ statusText = "Ready"
    /\ stepFetches = EmptyBag
    /\ timers = EmptyBag
    /\ initFetches = EmptyBag
    /\ genFetches = 0
    /\ deletes = EmptyBag
    /\ deleteFetches = EmptyBag
    /\ nextSid = 1
    /\ solved = FALSE
    /\ applied = <<>>
    /\ lastOp = [op |-> "load", grid |-> initialPuzzleLiteral, halted |-> "no",
                 marked |-> {}]

\* ---------------------------------------------------------------- helpers

\* String.prototype.trim on a sequence of characters.
RECURSIVE TrimLeft(_)
TrimLeft(s) == IF s # <<>> /\ Head(s) = " " THEN TrimLeft(Tail(s)) ELSE s

RECURSIVE TrimRight(_)
TrimRight(s) ==
    IF s # <<>> /\ s[Len(s)] = " " THEN TrimRight(SubSeq(s, 1, Len(s) - 1)) ELSE s

\* The input taken as typed.
TrimOmitted(s) == s

Trim(s) == TrimRight(TrimLeft(s))

\* updateGrid without its last line: the cells are redrawn, the grid is not stored.
updateGridNotStored(newPuzzle) == currentPuzzle

\* updateGrid: the whole grid of the response becomes the current grid.
updateGrid(newPuzzle) == [c \in Cells |-> newPuzzle[c]]

\* updateGrid, the cell elements: a cell whose value differs from the current
\* grid's gets the new text, and the class 'changed' if it is no clue.
updateGridText(newPuzzle) ==
    [c \in Cells |-> IF currentPuzzle[c] # newPuzzle[c] THEN newPuzzle[c] ELSE cellText[c]]
updateGridChanged(newPuzzle) ==
    {c \in Cells : currentPuzzle[c] # newPuzzle[c] /\ initialPuzzle[c] = 0}

\* updateStatus(status, step): the step counter changes only when a step is given.
NoStep == -1
updateStatus(step) == IF step # NoStep THEN step ELSE currentStep

\* The DELETE request sent without the test for a tracked session.
teardownUnguarded(log) == log (+) One(currentSessionId)

\* fetch(DELETE /api/session/<currentSessionId>) when a session is tracked:
\* `log` is `deletes` or `deleteFetches`.
teardown(log) == IF currentSessionId # Null THEN log (+) One(currentSessionId) ELSE log

\* ------------------------------------------------------------- solveStep

\* solveStep checking for a session only after it has updated the page.
solveStepCallLateCheck(caller, halted, dis, status) ==
    [sent |-> currentSessionId # Null,
     disabled |-> [dis EXCEPT !.stepBtn = TRUE, !.autoSolveBtn = TRUE],
     statusText |-> "Solving step...",
     fetches |-> IF currentSessionId = Null THEN stepFetches
                 ELSE stepFetches (+) One(StepFetch(currentSessionId, caller, halted))]

\* solveStep from its call to its await on fetch.  `dis` and `status` are the
\* buttons and the status text as the caller left them.  Without a session it
\* alerts and returns undefined, having changed nothing.
solveStepCall(caller, halted, dis, status) ==
    IF currentSessionId = Null
    THEN [sent |-> FALSE, disabled |-> dis, statusText |-> status, fetches |-> stepFetches]
    ELSE [sent |-> TRUE,
          disabled |-> [dis EXCEPT !.stepBtn = TRUE, !.autoSolveBtn = TRUE],
          statusText |-> "Solving step...",
          fetches |-> stepFetches (+) One(StepFetch(currentSessionId, caller, halted))]


\* solveStep whose catch block does not re-enable the step buttons.
solveStepResumeLeftDisabled(ok, grid, step, finished) ==
    IF ok
    THEN [grid |-> updateGrid(grid),
          text |-> updateGridText(grid),
          marked |-> updateGridChanged(grid),
          applied |-> <<grid>>,
          currentStep |-> updateStatus(step),
          statusText |-> IF finished THEN "Solved!" ELSE "Step completed",
          disabled |-> IF finished
                       THEN [disabled EXCEPT !.stepBtn = TRUE, !.autoSolveBtn = TRUE,
                                             !.stopBtn = TRUE]
                       ELSE [disabled EXCEPT !.stepBtn = FALSE, !.autoSolveBtn = FALSE],
          ret |-> finished]
    ELSE [grid |-> currentPuzzle,
          text |-> cellText,
          marked |-> {},
          applied |-> applied,
          currentStep |-> updateStatus(NoStep),
          statusText |-> "Error",
          disabled |-> disabled,
          ret |-> TRUE]

\* solveStep whose catch block ends without `return true`.
solveStepResumeNoReturn(ok, grid, step, finished) ==
    IF ok
    THEN [grid |-> updateGrid(grid),
          text |-> updateGridText(grid),
          marked |-> updateGridChanged(grid),
          applied |-> <<grid>>,
          currentStep |-> updateStatus(step),
          statusText |-> IF finished THEN "Solved!" ELSE "Step completed",
          disabled |-> IF finished
                       THEN [disabled EXCEPT !.stepBtn = TRUE, !.autoSolveBtn = TRUE,
                                             !.stopBtn = TRUE]
                       ELSE [disabled EXCEPT !.stepBtn = FALSE, !.autoSolveBtn = FALSE],
          ret |-> finished]
    ELSE [grid |-> currentPuzzle,
          text |-> cellText,
          marked |-> {},
          applied |-> applied,
          currentStep |-> updateStatus(NoStep),
          statusText |-> "Error",
          disabled |-> [disabled EXCEPT !.stepBtn = FALSE, !.autoSolveBtn = FALSE],
          ret |-> FALSE]

\* solveStep from the arrival of its response to its return.  `ret` is the
\* value returned to the caller: data.finished, or true from the catch block.
solveStepResume(ok, grid, step, finished) ==
    IF ok
    THEN [grid |-> updateGrid(grid),
          text |-> updateGridText(grid),
          marked |-> updateGridChanged(grid),
          applied |-> <<grid>>,
          currentStep |-> updateStatus(step),
          statusText |-> IF finished THEN "Solved!" ELSE "Step completed",
          disabled |-> IF finished
                       THEN [disabled EXCEPT !.stepBtn = TRUE, !.autoSolveBtn = TRUE,
                                             !.stopBtn = TRUE]
                       ELSE [disabled EXCEPT !.stepBtn = FALSE, !.autoSolveBtn = FALSE],
          ret |-> finished]
    ELSE [grid |-> currentPuzzle,
          text |-> cellText,
          marked |-> {},
          applied |-> applied,
          currentStep |-> updateStatus(NoStep),
          statusText |-> "Error",
          disabled |-> [disabled EXCEPT !.stepBtn = FALSE, !.autoSolveBtn = FALSE],
          ret |-> TRUE]

\* A click on stepBtn: solveStep() called by the event listener.
solveStep ==
    /\ ~disabled.stepBtn
    /\ currentSessionId # Null => Pending < MaxPending
    /\ LET c == solveStepCall("listener", "no", disabled, statusText) IN
        /\ disabled' = c.disabled
        /\ statusText' = c.statusText
        /\ stepFetches' = c.fetches
        /\ lastOp' = Op(IF c.sent THEN "step" ELSE "stepNoSession")
    /\ UNCHANGED <<currentSessionId, autoSolving, currentStep, initialPuzzle,
                   currentPuzzle, cellText, timers, initFetches, genFetches, deletes,
                   deleteFetches, nextSid, solved, applied>>

\* The response of a step request issued by a click on stepBtn.
solveStepResponse(f, ok, grid, step, finished) ==
    /\ BagIn(f, stepFetches)
    /\ f.caller = "listener"
    /\ LET r == solveStepResume(ok, grid, step, finished) IN
        /\ currentPuzzle' = r.grid
        /\ cellText' = r.text
        /\ applied' = r.applied
        /\ currentStep' = r.currentStep
        /\ statusText' = r.statusText
        /\ disabled' = r.disabled
        /\ solved' = (solved \/ (ok /\ finished))
        /\ lastOp' = [op |-> IF ok THEN "stepOk" ELSE "stepFail", grid |-> grid,
                      halted |-> "no", marked |-> r.marked]
    /\ stepFetches' = stepFetches (-) One(f)
    /\ UNCHANGED <<currentSessionId, autoSolving, initialPuzzle, timers, initFetches,
                   genFetches, deletes, deleteFetches, nextSid>>

\* ------------------------------------------------------------- autoSolve

\* autoSolve after its loop: lines 239-245.
autoSolveExit(auto, dis, status) ==
    LET d1 == [dis EXCEPT !.stopBtn = TRUE]
        d2 == IF ~auto THEN [d1 EXCEPT !.stepBtn = FALSE, !.autoSolveBtn = FALSE] ELSE d1
    IN [disabled |-> [d2 EXCEPT !.initializeBtn = FALSE],
        statusText |-> IF ~auto THEN "Stopped" ELSE status]

\* One evaluation of `while (autoSolving)` by a loop, up to the next await:
\* the loop exits, or calls solveStep and awaits its fetch, or (solveStep
\* having returned undefined at once) awaits the 500 ms timer.  `rest` is the
\* bag of timers without this loop's.
autoSolveIterate(auto, halted, dis, status, rest) ==
    IF auto
    THEN LET c == solveStepCall("autoSolve", halted, dis, status) IN
        /\ disabled' = c.disabled
        /\ statusText' = c.statusText
        /\ stepFetches' = c.fetches
        /\ timers' = IF c.sent THEN rest ELSE rest (+) One(Loop(halted))
    ELSE LET x == autoSolveExit(auto, dis, status) IN
        /\ disabled' = x.disabled
        /\ statusText' = x.statusText
        /\ stepFetches' = stepFetches
        /\ timers' = rest

\* A click on autoSolveBtn.
autoSolve ==
    /\ ~disabled.autoSolveBtn
    /\ IF autoSolving
       THEN /\ lastOp' = Op("autoIgnored")
            /\ UNCHANGED <<autoSolving, disabled, statusText, stepFetches, timers>>
       ELSE /\ Pending < MaxPending
            /\ autoSolving' = TRUE
            /\ autoSolveIterate(TRUE, "no",
                   [disabled EXCEPT !.autoSolveBtn = TRUE, !.stopBtn = FALSE,
                                    !.stepBtn = TRUE, !.initializeBtn = TRUE],
                   "Auto solving...", timers)
            /\ lastOp' = Op(IF currentSessionId # Null THEN "auto" ELSE "autoNoSession")
    /\ UNCHANGED <<currentSessionId, currentStep, initialPuzzle, currentPuzzle,
                   cellText, initFetches, genFetches, deletes, deleteFetches, nextSid,
                   solved, applied>>

\* The response of the step request a loop awaits: solveStep returns, then
\* the loop breaks (finished is truthy) or starts its 500 ms delay.
autoSolveStepResponse(f, ok, grid, step, finished) ==
    /\ BagIn(f, stepFetches)
    /\ f.caller = "autoSolve"
    /\ LET r == solveStepResume(ok, grid, step, finished)
           x == autoSolveExit(FALSE, r.disabled, r.statusText)
       IN
        /\ currentPuzzle' = r.grid
        /\ cellText' = r.text
        /\ applied' = r.applied
        /\ currentStep' = r.currentStep
        /\ solved' = (solved \/ (ok /\ finished))
        /\ IF r.ret
           THEN /\ autoSolving' = FALSE
                /\ disabled' = x.disabled
                /\ statusText' = x.statusText
                /\ timers' = timers
           ELSE /\ autoSolving' = autoSolving
                /\ disabled' = r.disabled
                /\ statusText' = r.statusText
                /\ timers' = timers (+) One(Loop(f.halted))
        /\ lastOp' = [op |-> IF ok THEN "autoStepOk" ELSE "autoStepFail",
                      grid |-> grid, halted |-> f.halted, marked |-> r.marked]
    /\ stepFetches' = stepFetches (-) One(f)
    /\ UNCHANGED <<currentSessionId, initialPuzzle, initFetches, genFetches, deletes,
                   deleteFetches, nextSid>>

\* The 500 ms timer of a loop fires: the loop re-checks the run-active flag.
autoSolveDelayElapsed(t) ==
    /\ BagIn(t, timers)
    /\ autoSolving' = autoSolving
    /\ autoSolveIterate(autoSolving, t.halted, disabled, statusText, timers (-) One(t))
    /\ lastOp' = [op |-> IF ~autoSolving THEN "autoExit"
                         ELSE IF currentSessionId # Null THEN "autoNext"
                         ELSE "autoNextNoSession",
                  grid |-> currentPuzzle, halted |-> t.halted, marked |-> {}]
    /\ UNCHANGED <<currentSessionId, currentStep, initialPuzzle, currentPuzzle,
                   cellText, initFetches, genFetches, deletes, deleteFetches, nextSid,
                   solved, applied>>

\* `halted` of the live loops after a click on stopBtn: a loop that was not
\* halted before is now halted where it is, awaiting its fetch or its timer.
Halt(h, where) == IF h = "no" THEN where ELSE h
HaltFetch(f) ==
    IF f.caller = "autoSolve" THEN [f EXCEPT !.halted = Halt(f.halted, "inflight")] ELSE f
HaltTimer(t) == Loop(Halt(t.halted, "delay"))
HaltFetches ==
    LET S == BagToSet(stepFetches) IN
    [g \in {HaltFetch(f) : f \in S} |->
        BagCardinality([f \in {e \in S : HaltFetch(e) = g} |-> stepFetches[f]])]
HaltTimers ==
    LET S == BagToSet(timers) IN
    [g \in {HaltTimer(t) : t \in S} |->
        BagCardinality([t \in {e \in S : HaltTimer(e) = g} |-> timers[t]])]

\* stopAutoSolve aborting the step requests in flight.
stopAutoSolveAborting ==
    /\ ~disabled.stopBtn
    /\ autoSolving' = FALSE
    /\ disabled' = [disabled EXCEPT !.stopBtn = TRUE, !.stepBtn = FALSE,
                                    !.autoSolveBtn = FALSE, !.initializeBtn = FALSE]
    /\ statusText' = "Stopped"
    /\ stepFetches' = EmptyBag
    /\ timers' = HaltTimers
    /\ lastOp' = Op("stop")
    /\ UNCHANGED <<currentSessionId, currentStep, initialPuzzle, currentPuzzle,
                   cellText, initFetches, genFetches, deletes, deleteFetches, nextSid,
                   solved, applied>>

\* A click on stopBtn.
stopAutoSolve ==
    /\ ~disabled.stopBtn
    /\ autoSolving' = FALSE
    /\ disabled' = [disabled EXCEPT !.stopBtn = TRUE, !.stepBtn = FALSE,
                                    !.autoSolveBtn = FALSE, !.initializeBtn = FALSE]
    /\ statusText' = "Stopped"
    /\ stepFetches' = HaltFetches
    /\ timers' = HaltTimers
    /\ lastOp' = Op("stop")
    /\ UNCHANGED <<currentSessionId, currentStep, initialPuzzle, currentPuzzle,
                   cellText, initFetches, genFetches, deletes, deleteFetches, nextSid,
                   solved, applied>>

\* ------------------------------------------------------- initializeSolver

\* A click on initializeBtn with `value` in the checkpoint input.
initializeSolver(value) ==
    /\ ~disabled.initializeBtn
    /\ IF Trim(value) = <<>>
       THEN /\ disabled' = [disabled EXCEPT !.initializeBtn = FALSE]
            /\ statusText' = "Ready"
            /\ initFetches' = initFetches
            /\ lastOp' = Op(IF value = <<>> THEN "initEmpty" ELSE "initBlank")
       ELSE /\ Pending < MaxPending
            /\ disabled' = [disabled EXCEPT !.initializeBtn = TRUE]
            /\ statusText' = "Initializing solver..."
            /\ initFetches' = initFetches (+) One([puzzle |-> currentPuzzle])
            /\ lastOp' = Op("init")
    /\ UNCHANGED <<currentSessionId, autoSolving, currentStep, initialPuzzle,
                   currentPuzzle, cellText, stepFetches, timers, genFetches, deletes,
                   deleteFetches, nextSid, solved, applied>>

\* initializeSolver whose catch block forgets the session.
initializeResponseFailureClears(f, ok) ==
    /\ BagIn(f, initFetches)
    /\ initFetches' = initFetches (-) One(f)
    /\ IF ok
       THEN /\ nextSid <= MaxSessions
            /\ currentSessionId' = nextSid
            /\ nextSid' = nextSid + 1
            /\ currentStep' = updateStatus(0)
            /\ statusText' = "Solver initialized - Ready to solve"
            /\ disabled' = [disabled EXCEPT !.stepBtn = FALSE, !.autoSolveBtn = FALSE,
                                            !.initializeBtn = FALSE]
            /\ solved' = FALSE
            /\ lastOp' = Op("initOk")
       ELSE /\ currentStep' = updateStatus(NoStep)
            /\ statusText' = "Error"
            /\ disabled' = [disabled EXCEPT !.initializeBtn = FALSE]
            /\ lastOp' = Op("initFail")
            /\ currentSessionId' = Null
            /\ UNCHANGED <<nextSid, solved>>
    /\ UNCHANGED <<autoSolving, initialPuzzle, currentPuzzle, cellText, stepFetches,
                   timers, genFetches, deletes, deleteFetches, applied>>

\* initializeSolver calling updateStatus without the step argument.
initializeResponseStepKept(f, ok) ==
    /\ BagIn(f, initFetches)
    /\ initFetches' = initFetches (-) One(f)
    /\ IF ok
       THEN /\ nextSid <= MaxSessions
            /\ currentSessionId' = nextSid
            /\ nextSid' = nextSid + 1
            /\ currentStep' = updateStatus(NoStep)
            /\ statusText' = "Solver initialized - Ready to solve"
            /\ disabled' = [disabled EXCEPT !.stepBtn = FALSE, !.autoSolveBtn = FALSE,
                                            !.initializeBtn = FALSE]
            /\ solved' = FALSE
            /\ lastOp' = Op("initOk")
       ELSE /\ currentStep' = updateStatus(NoStep)
            /\ statusText' = "Error"
            /\ disabled' = [disabled EXCEPT !.initializeBtn = FALSE]
            /\ lastOp' = Op("initFail")
            /\ UNCHANGED <<currentSessionId, nextSid, solved>>
    /\ UNCHANGED <<autoSolving, initialPuzzle, currentPuzzle, cellText, stepFetches,
                   timers, genFetches, deletes, deleteFetches, applied>>

\* The response of an initialize request: a fresh session id, or a failure.
initializeResponse(f, ok) ==
    /\ BagIn(f, initFetches)
    /\ initFetches' = initFetches (-) One(f)
    /\ IF ok
       THEN /\ nextSid <= MaxSessions
            /\ currentSessionId' = nextSid
            /\ nextSid' = nextSid + 1
            /\ currentStep' = updateStatus(0)
            /\ statusText' = "Solver initialized - Ready to solve"
            /\ disabled' = [disabled EXCEPT !.stepBtn = FALSE, !.autoSolveBtn = FALSE,
                                            !.initializeBtn = FALSE]
            /\ solved' = FALSE
            /\ lastOp' = Op("initOk")
       ELSE /\ currentStep' = updateStatus(NoStep)
            /\ statusText' = "Error"
            /\ disabled' = [disabled EXCEPT !.initializeBtn = FALSE]
            /\ lastOp' = Op("initFail")
            /\ UNCHANGED <<currentSessionId, nextSid, solved>>
    /\ UNCHANGED <<autoSolving, initialPuzzle, currentPuzzle, cellText, stepFetches,
                   timers, genFetches, deletes, deleteFetches, applied>>

\* ------------------------------------------------------------ resetPuzzle

\* resetPuzzle without `currentSessionId = null`.
resetPuzzleSessionKept ==
    /\ currentPuzzle' = initialPuzzle
    /\ cellText' = createSudokuGrid(currentPuzzle')
    /\ applied' = <<>>
    /\ deletes' = teardown(deletes)
    /\ deleteFetches' = teardown(deleteFetches)
    /\ currentSessionId' = currentSessionId
    /\ autoSolving' = FALSE
    /\ currentStep' = 0
    /\ statusText' = "Ready"
    /\ disabled' = [stepBtn |-> TRUE, autoSolveBtn |-> TRUE, stopBtn |-> TRUE,
                    initializeBtn |-> FALSE]
    /\ lastOp' = [op |-> "reset", grid |-> initialPuzzle, halted |-> "no",
                  marked |-> {}]
    /\ UNCHANGED <<initialPuzzle, stepFetches, timers, initFetches, genFetches, nextSid,
                   solved>>

\* A click on resetBtn.
resetPuzzle ==
    /\ currentPuzzle' = initialPuzzle
    /\ cellText' = createSudokuGrid(currentPuzzle')
    /\ applied' = <<>>
    /\ deletes' = teardown(deletes)
    /\ deleteFetches' = teardown(deleteFetches)
    /\ currentSessionId' = Null
    /\ autoSolving' = FALSE
    /\ currentStep' = 0
    /\ statusText' = "Ready"
    /\ disabled' = [stepBtn |-> TRUE, autoSolveBtn |-> TRUE, stopBtn |-> TRUE,
                    initializeBtn |-> FALSE]
    /\ lastOp' = [op |-> "reset", grid |-> initialPuzzle, halted |-> "no",
                  marked |-> {}]
    /\ UNCHANGED <<initialPuzzle, stepFetches, timers, initFetches, genFetches, nextSid,
                   solved>>

\* ------------------------------------------------------ generateNewPuzzle

\* A click on confirmGenerateBtn with the chosen source and test data file.
generateNewPuzzle(source, testDataPath) ==
    /\ statusText' = "Generating puzzle..."
    /\ IF source = "test_data" /\ testDataPath = ""
       THEN /\ genFetches' = genFetches
            /\ lastOp' = Op("genNoFile")
       ELSE /\ Pending < MaxPending
            /\ genFetches' = genFetches + 1
            /\ lastOp' = Op("gen")
    /\ UNCHANGED <<currentSessionId, autoSolving, currentStep, initialPuzzle,
                   currentPuzzle, cellText, disabled, stepFetches, timers, initFetches,
                   deletes, deleteFetches, nextSid, solved, applied>>

\* The response of a generate_puzzle request: a puzzle, or a failure.
generateNewPuzzleResponse(ok, puzzle) ==
    /\ genFetches > 0
    /\ genFetches' = genFetches - 1
    /\ IF ok
       THEN /\ initialPuzzle' = [c \in Cells |-> puzzle[c]]
            /\ currentPuzzle' = initialPuzzle'
            /\ cellText' = createSudokuGrid(currentPuzzle')
            /\ applied' = <<>>
            /\ deletes' = teardown(deletes)
            /\ deleteFetches' = teardown(deleteFetches)
            /\ currentSessionId' = Null
            /\ autoSolving' = FALSE
            /\ currentStep' = 0
            /\ disabled' = [disabled EXCEPT !.stepBtn = TRUE, !.autoSolveBtn = TRUE,
                                            !.stopBtn = TRUE]
            /\ statusText' = "New puzzle generated"
            /\ lastOp' = [op |-> "genOk", grid |-> puzzle, halted |-> "no",
                          marked |-> {}]
       ELSE /\ statusText' = "Error"
            /\ lastOp' = Op("genFail")
            /\ UNCHANGED <<initialPuzzle, currentPuzzle, cellText, applied, deletes,
                           deleteFetches, currentSessionId, autoSolving, currentStep,
                           disabled>>
    /\ UNCHANGED <<stepFetches, timers, initFetches, nextSid, solved>>

\* --------------------------------------------------------------- teardown

\* A DELETE request is answered or fails.  No handler awaits it: a failure
\* only runs `.catch(console.error)`, which touches nothing of the page, so
\* `ok` has no effect and `lastOp` stays.
teardownSettled(sid, ok) ==
    /\ BagIn(sid, deleteFetches)
    /\ deleteFetches' = deleteFetches (-) One(sid)
    /\ UNCHANGED lastOp
    /\ UNCHANGED <<currentSessionId, autoSolving, currentStep, initialPuzzle,
                   currentPuzzle, cellText, disabled, statusText, stepFetches, timers,
                   initFetches, genFetches, deletes, nextSid, solved, applied>>

\* ------------------------------------------------------------------ Next

StepResponse ==
    \E f \in BagToSet(stepFetches), grid \in Grids, step \in StepIndexes,
       finished \in BOOLEAN :
        solveStepResponse(f, TRUE, grid, step, finished)

StepFailure ==
    \E f \in BagToSet(stepFetches) :
        solveStepResponse(f, FALSE, currentPuzzle, NoStep, FALSE)

AutoStepResponse ==
    \E f \in BagToSet(stepFetches), grid \in Grids, step \in StepIndexes,
       finished \in BOOLEAN :
        autoSolveStepResponse(f, TRUE, grid, step, finished)

AutoStepFailure ==
    \E f \in BagToSet(stepFetches) :
        autoSolveStepResponse(f, FALSE, currentPuzzle, NoStep, FALSE)

DelayElapsed == \E t \in BagToSet(timers) : autoSolveDelayElapsed(t)

Initialize == \E value \in Checkpoints : initializeSolver(value)

InitializeResponse ==
    \E f \in BagToSet(initFetches), ok \in BOOLEAN : initializeResponse(f, ok)

Generate ==
    \E source \in {"random", "test_data"}, path \in {"", "file"} :
        generateNewPuzzle(source, path)

GenerateResponse ==
    \E puzzle \in Grids, ok \in BOOLEAN : generateNewPuzzleResponse(ok, puzzle)

TeardownSettled ==
    \E sid \in BagToSet(deleteFetches), ok \in BOOLEAN : teardownSettled(sid, ok)

Next ==
    \/ Initialize
    \/ InitializeResponse
    \/ solveStep
    \/ StepResponse
    \/ StepFailure
    \/ autoSolve
    \/ AutoStepResponse
    \/ AutoStepFailure
    \/ DelayElapsed
    \/ stopAutoSolve
    \/ resetPuzzle
    \/ Generate
    \/ GenerateResponse
    \/ TeardownSettled

Spec == Init /\ [][Next]_vars

\* The browser's scheduling: a request in flight is eventually answered (or
\* fails), and a running 500 ms timer eventually fires.  What the user clicks,
\* and when, is left open.
HaltedMarks == {"no", "inflight", "delay"}
StepFetchRecords ==
    {StepFetch(sid, caller, halted) :
        sid \in Sessions, caller \in {"listener", "autoSolve"}, halted \in HaltedMarks}
StepAnswered(f) ==
    \E ok \in BOOLEAN, grid \in Grids, step \in StepIndexes \cup {NoStep},
       finished \in BOOLEAN :
        \/ solveStepResponse(f, ok, grid, step, finished)
        \/ autoSolveStepResponse(f, ok, grid, step, finished)
Fairness ==
    /\ \A f \in StepFetchRecords : WF_vars(StepAnswered(f))
    /\ \A halted \in HaltedMarks : WF_vars(autoSolveDelayElapsed(Loop(halted)))
    /\ WF_vars(InitializeResponse)
    /\ WF_vars(GenerateResponse)

FairSpec == Spec /\ Fairness

\* ================================================================ claims

StepFetchCount == BagCardinality(stepFetches)

\* C1: in every reachable state at most one step request is outstanding.
C1_AtMostOneStepOutstanding == StepFetchCount <= 1

\* C2: an auto-run loop issues a step request only when every step request
\* issued earlier by auto-run has been answered (and so applied).
C2_AutoStepsSequential ==
    [][AutoFetchCount' > AutoFetchCount => AutoFetchCount = 0]_vars

\* C3: the response of a loop's step request that was in flight when stop()
\* was called is applied to the current grid, and the loop that awaited it
\* issues no further step request.
C3_StopLetsStepLandThenHalts ==
    /\ (lastOp.op = "autoStepOk" /\ lastOp.halted = "inflight"
            => currentPuzzle = lastOp.grid)
    /\ (lastOp.op = "autoNext" => lastOp.halted # "inflight")

\* C4: every cell that is nonzero in the fixed puzzle has the same value in
\* the current grid.
C4_FixedCluesKept ==
    \A c \in Cells : initialPuzzle[c] # 0 => currentPuzzle[c] = initialPuzzle[c]

\* C5: from the application of a finished step response until the next
\* successful initialize, manual step and auto-run stay disabled and no step
\* request is issued.
C5_FinishedForbidsStepping ==
    [][solved' => /\ disabled'.stepBtn /\ disabled'.autoSolveBtn
                  /\ (solved => BagCardinality(stepFetches') <= StepFetchCount)]_vars

\* C6: while an auto-run loop has not exited (it awaits its step or its
\* delay) the manual step command is disabled.
C6_NoManualStepDuringAutoRun == LiveLoops > 0 => disabled.stepBtn

\* C7: an auto-run loop starts only in a state with an active session and no
\* step request in flight.
C7_StartNeedsSessionAndIdle ==
    [][LiveLoops' > LiveLoops
          => currentSessionId # Null /\ StepFetchCount = 0]_vars

\* C8: step() without an active session issues no network request and leaves
\* the grids, the session, the step counter and the run state (flag, buttons,
\* status) unchanged.
C8_StepWithoutSessionIsNoOp ==
    [][(solveStep /\ currentSessionId = Null)
          => /\ lastOp'.op = "stepNoSession"
             /\ UNCHANGED <<currentSessionId, autoSolving, currentStep, initialPuzzle,
                            currentPuzzle, cellText, disabled, statusText,
                            stepFetches, timers, initFetches, genFetches, deletes,
                            deleteFetches>>]_vars

C8_Witness ==
    /\ lastOp.op = "stepNoSession"
    /\ currentSessionId = Null
    /\ ~disabled.stepBtn

\* C9: initialize() with an empty or whitespace-only checkpoint issues no
\* network request, leaves the session and both grids unchanged, and leaves
\* initialize enabled.
Blank(value) == \A i \in 1..Len(value) : value[i] = " "

C9_EmptyCheckpointRejected ==
    [][\A value \in Checkpoints :
          (Blank(value) /\ initializeSolver(value))
              => /\ lastOp'.op \in {"initEmpty", "initBlank"}
                 /\ ~disabled'.initializeBtn
                 /\ UNCHANGED <<currentSessionId, currentStep, initialPuzzle,
                                currentPuzzle, cellText, stepFetches, timers,
                                initFetches, genFetches, deletes,
                                deleteFetches>>]_vars

C9_Witness ==
    /\ lastOp.op = "initBlank"
    /\ ~disabled.initializeBtn
    /\ BagCardinality(initFetches) = 0

\* C10: right after reset, or after a new puzzle P is installed, the current
\* grid equals the fixed puzzle (equals P), no session is tracked, the
\* run-active flag is clear, the step counter is 0, and the run state is Idle:
\* manual step and auto-run disabled, initialize enabled.
C10_ResetYieldsIdle ==
    lastOp.op \in {"reset", "genOk"} =>
        /\ currentPuzzle = initialPuzzle
        /\ initialPuzzle = lastOp.grid
        /\ currentSessionId = Null
        /\ ~autoSolving
        /\ currentStep = 0
        /\ disabled.stepBtn /\ disabled.autoSolveBtn
        /\ ~disabled.initializeBtn

\* C11: when an auto-run ends, the final status tells why it ended: "Solved!"
\* if its last step response was finished, "Error" if its last step failed,
\* and "Stopped" only if stop cleared the run-active flag during its life.
LoopEnds == LiveLoops' < LiveLoops

C11_RunEndTellsWhy ==
    [][LoopEnds =>
          /\ lastOp'.op = "autoStepOk" => statusText' = "Solved!"
          /\ lastOp'.op = "autoStepFail" => statusText' = "Error"
          /\ statusText' = "Stopped" => lastOp'.halted # "no"]_vars

\* C12: a failed step during an auto-run ends that run: the loop that awaited
\* the step exits without another request and clears the run-active flag;
\* the flag is set again only by a start command, and while it is clear a
\* step request is issued only by a manual step or a start command.
C12_FailedStepEndsRun ==
    [][/\ AutoStepFailure =>
            /\ ~autoSolving'
            /\ LiveLoops' = LiveLoops - 1
            /\ BagCardinality(stepFetches') = StepFetchCount - 1
       /\ (~autoSolving /\ autoSolving') => lastOp'.op \in {"auto", "autoNoSession"}
       /\ (~autoSolving /\ BagCardinality(stepFetches') > StepFetchCount)
            => lastOp'.op \in {"step", "auto"}]_vars

C12_Witness ==
    /\ lastOp.op = "autoStepFail"
    /\ ~autoSolving
    /\ LiveLoops = 0
    /\ statusText = "Stopped"

\* C13: in every reachable state the current grid equals the grid of the step
\* result applied last, or the fixed puzzle if no step result was applied
\* since the last reset or new puzzle.
C13_GridIsLastApplied ==
    currentPuzzle = IF applied = <<>> THEN initialPuzzle ELSE applied[1]

C13_Witness ==
    /\ lastOp.op \in {"stepOk", "autoStepOk"}
    /\ applied = <<lastOp.grid>>
    /\ lastOp.grid # initialPuzzle
    /\ currentPuzzle = lastOp.grid

\* C14: a successful initialize makes the returned session id the tracked
\* session (replacing any tracked before), resets the step counter to 0 and
\* enables manual step and auto-run; it issues no DELETE request.
C14_InitializeAdoptsSession ==
    [][\A f \in BagToSet(initFetches) :
          initializeResponse(f, TRUE) =>
              /\ currentSessionId' = nextSid
              /\ currentStep' = 0
              /\ ~disabled'.stepBtn /\ ~disabled'.autoSolveBtn
              /\ UNCHANGED <<deletes, deleteFetches>>]_vars

C14_Witness ==
    /\ lastOp.op = "initOk"
    /\ currentSessionId = 2
    /\ currentStep = 0
    /\ deletes = EmptyBag

\* C15: teardown is fire-and-forget: reset and a new puzzle issue a DELETE for
\* the tracked session exactly when one is tracked and clear the local session
\* in the same handler; a DELETE that is answered, fails or stays unanswered
\* changes nothing of the controller, so it blocks no later command.
C15_TeardownFireAndForget ==
    [][/\ (resetPuzzle \/ \E puzzle \in Grids : generateNewPuzzleResponse(TRUE, puzzle))
            => /\ currentSessionId' = Null
               /\ deletes' = IF currentSessionId # Null
                             THEN deletes (+) One(currentSessionId) ELSE deletes
               /\ deleteFetches' = IF currentSessionId # Null
                                   THEN deleteFetches (+) One(currentSessionId)
                                   ELSE deleteFetches
       /\ TeardownSettled
            => UNCHANGED <<currentSessionId, autoSolving, currentStep, initialPuzzle,
                           currentPuzzle, cellText, disabled, statusText, stepFetches,
                           timers, initFetches, genFetches, deletes, nextSid>>]_vars

C15_Witness ==
    /\ lastOp.op \in {"reset", "genOk"}
    /\ currentSessionId = Null
    /\ BagIn(1, deletes)
    /\ deleteFetches = EmptyBag

\* C16: in every reachable state the run state is a post-initialization state
\* (manual step or auto-run enabled, or a step or an auto-run in progress)
\* only if a session is tracked.  (The claim's second half, Idle exactly when
\* no session is tracked, says the same of the states without a session.)
PostInitialization ==
    \/ ~disabled.stepBtn
    \/ ~disabled.autoSolveBtn
    \/ StepFetchCount > 0
    \/ LiveLoops > 0

C16_PostInitNeedsSession == PostInitialization => currentSessionId # Null

\* C17: every session that is no longer the tracked one (after a reset, a new
\* puzzle, or a later successful initialize) has had a DELETE issued for it,
\* and no session has more than one DELETE issued for it.
IssuedSessions == 1..(nextSid - 1)

C17_UntrackedSessionDeletedOnce ==
    \A s \in IssuedSessions :
        /\ CopiesIn(s, deletes) <= 1
        /\ s # currentSessionId => CopiesIn(s, deletes) = 1

\* C18: when every step request is eventually answered and every delay
\* eventually elapses, a loop that was alive when stop was called eventually
\* exits (the stop and start commands being given only finitely often).
HaltedLoopLive ==
    \/ \E f \in AutoFetches : f.halted # "no"
    \/ \E t \in BagToSet(timers) : t.halted # "no"

C18_StoppedLoopExits ==
    \/ []<>(lastOp.op \in {"stop", "auto", "autoNoSession"})
    \/ HaltedLoopLive ~> ~HaltedLoopLive

\* C19: applying a step result marks a cell as changed exactly when its new
\* value differs from the current one and the cell is empty in the fixed
\* puzzle; of a clue cell neither the stored nor the displayed value is
\* replaced.
C19_ApplyStepSparesClues ==
    [][(StepResponse \/ AutoStepResponse) =>
          /\ lastOp'.marked =
                {c \in Cells : lastOp'.grid[c] # currentPuzzle[c] /\ initialPuzzle[c] = 0}
          /\ \A c \in Cells :
                initialPuzzle[c] # 0 =>
                    /\ currentPuzzle'[c] = currentPuzzle[c]
                    /\ cellText'[c] = cellText[c]]_vars

\* C20: a failed step, manual or of an auto-run, leaves the current grid, the
\* fixed puzzle, the tracked session and the step counter unchanged, and
\* leaves manual step and auto-run enabled.
C20_FailedStepChangesNothing ==
    [][(StepFailure \/ AutoStepFailure) =>
          /\ UNCHANGED <<currentPuzzle, cellText, initialPuzzle, currentSessionId,
                         currentStep>>
          /\ ~disabled'.stepBtn /\ ~disabled'.autoSolveBtn]_vars

C20_Witness ==
    /\ lastOp.op = "stepFail"
    /\ currentSessionId # Null
    /\ currentStep > 0
    /\ currentPuzzle # initialPuzzle
    /\ ~disabled.stepBtn /\ ~disabled.autoSolveBtn

\* C21: at most one auto-run loop is alive at any time; a loop that was alive
\* when stop was called never issues another step request, and a start
\* command given while the run-active flag is set starts no loop.
C21_OneLoopAtATime ==
    /\ LiveLoops <= 1
    /\ lastOp.op \in {"autoNext", "autoNextNoSession"} => lastOp.halted = "no"
    /\ lastOp.op = "autoIgnored" => autoSolving

\* C22: a step response changes the current grid and the step counter only if
\* the session it was requested for is still the tracked session when it
\* arrives; a response that arrives after a reset, a new puzzle or a
\* re-initialize leaves the grid (stored and shown) and the counter alone.
StepResultArrives(f, grid, step, finished) ==
    \/ solveStepResponse(f, TRUE, grid, step, finished)
    \/ autoSolveStepResponse(f, TRUE, grid, step, finished)

C22_StaleResponseDropped ==
    [][\A f \in BagToSet(stepFetches), grid \in Grids, step \in StepIndexes,
          finished \in BOOLEAN :
          (StepResultArrives(f, grid, step, finished) /\ f.sid # currentSessionId)
              => UNCHANGED <<currentPuzzle, cellText, currentStep>>]_vars

\* C23: a tracked session was initialized from the puzzle that is the fixed
\* puzzle: the grid an initialize request sends is the fixed puzzle of that
\* moment, the session of a response is adopted only if its request sent the
\* puzzle that is fixed when the response arrives, and the fixed puzzle does
\* not change under a session that stays tracked.
InitRequest(puzzle) == [puzzle |-> puzzle]

C23_SessionOfFixedPuzzle ==
    [][/\ BagCardinality(initFetches') > BagCardinality(initFetches)
            => CopiesIn(InitRequest(initialPuzzle), initFetches')
                   > CopiesIn(InitRequest(initialPuzzle), initFetches)
       /\ \A f \in BagToSet(initFetches) :
            initializeResponse(f, TRUE) => f.puzzle = initialPuzzle
       /\ (currentSessionId # Null /\ currentSessionId' = currentSessionId)
            => initialPuzzle' = initialPuzzle]_vars

\* C24: no step request is ever issued to a session id for which a DELETE
\* request has been issued: a step request goes to the session tracked when
\* it is issued, and no DELETE has been issued for that session.
FetchesTo(sid) ==
    BagCardinality([f \in {e \in BagToSet(stepFetches) : e.sid = sid} |-> stepFetches[f]])

C24_NoStepToDeletedSession ==
    [][\A sid \in Sessions :
          FetchesTo(sid)' > FetchesTo(sid)
              => sid = currentSessionId /\ ~BagIn(sid, deletes)]_vars

C24_Witness ==
    /\ lastOp.op \in {"step", "auto", "autoNext"}
    /\ BagIn(1, deletes)
    /\ currentSessionId = 2
    /\ FetchesTo(2) > 0

\* C25: a failed initialize leaves the tracked session, both grids and the
\* step counter unchanged, leaves a tracked session as steppable as it was,
\* issues no DELETE, and re-enables initialize.
C25_FailedInitializeKeepsSession ==
    [][\A f \in BagToSet(initFetches) :
          initializeResponse(f, FALSE) =>
              /\ UNCHANGED <<currentSessionId, initialPuzzle, currentPuzzle, cellText,
                             currentStep, deletes, stepFetches>>
              /\ disabled'.stepBtn = disabled.stepBtn
              /\ disabled'.autoSolveBtn = disabled.autoSolveBtn
              /\ ~disabled'.initializeBtn]_vars

C25_Witness ==
    /\ lastOp.op = "initFail"
    /\ currentSessionId # Null
    /\ currentStep > 0
    /\ ~disabled.stepBtn
    /\ ~disabled.initializeBtn

\* C26: the step counter is the step index of the step result of the tracked
\* session that was applied last, and 0 if none was applied since the last
\* successful initialize, reset or new puzzle: it becomes 0 at those three,
\* becomes the index of an arriving result of the tracked session, and does
\* not change otherwise.
C26_CounterOfTrackedSession ==
    [][/\ \A f \in BagToSet(stepFetches), grid \in Grids, step \in StepIndexes,
            finished \in BOOLEAN :
            StepResultArrives(f, grid, step, finished)
                => currentStep' = IF f.sid = currentSessionId THEN step ELSE currentStep
       /\ (lastOp' # lastOp /\ lastOp'.op \in {"initOk", "reset", "genOk"})
            => currentStep' = 0
       /\ currentStep' # currentStep
            => lastOp'.op \in {"stepOk", "autoStepOk", "initOk", "reset", "genOk"}]_vars

\* C27: stop changes only the run-active flag and the run state: the tracked
\* session, the current grid, the fixed puzzle and the step counter stay as
\* they are, no request is issued, and every step request in flight and
\* every loop stays outstanding.
C27_StopChangesFlagOnly ==
    [][stopAutoSolve =>
          /\ ~autoSolving'
          /\ UNCHANGED <<currentSessionId, currentPuzzle, cellText, initialPuzzle,
                         currentStep, initFetches, genFetches, deletes, deleteFetches>>
          /\ \A sid \in Sessions : FetchesTo(sid)' = FetchesTo(sid)
          /\ LiveLoops' = LiveLoops]_vars

C27_Witness ==
    /\ lastOp.op = "stop"
    /\ ~autoSolving
    /\ \E f \in AutoFetches : f.halted = "inflight"
    /\ currentSessionId # Null

====
